---- MODULE Spec2Model ----
(***************************************************************************)
(* Article discovery and normalisation pipeline of news-agent:             *)
(*   - NewsRetriever (v1/src/tools/news_retriever.py): the generic link    *)
(*     extractor, the header-article extraction, the arXiv listing         *)
(*     extractor, the de-duplication / text-fetch stage;                   *)
(*   - ArticlesDatabase (src/tools/articles_database.py): the record store.*)
(* Python strings are sequences of one-character strings; Python's None is *)
(* the one-element sequence None, which no string of characters equals.    *)
(* The characters U+00A0 (no-break space) and U+000B (vertical tab) are    *)
(* written by their Python escapes, as the elements "\\xa0" and "\\x0b".   *)
(***************************************************************************)
EXTENDS Integers, Sequences, FiniteSets, TLC

VARIABLES
    pc,               \* position of the program that is running
    today,            \* datetime.now().date() as <<year, month, day>>
    articles_records, \* ArticlesDatabase.articles_records: the rows in memory
    csv_file,         \* the rows of articles.csv on disk
    pages,            \* the site snapshot: the listing page of every configured site
    site_i,           \* __scrape_websites: index of the next website to scrape
    articles,         \* __scrape_websites: the stubs collected so far
    art_i,            \* fetch_articles_from_sources: index of the next stub to look at
    unique_articles,  \* fetch_articles_from_sources: the list it returns
    browsers,         \* playwright browsers: [open, peak], open now / most open at once
    error,            \* the exception that ended the program ("" when none)
    runs,             \* history: program runs (store: update calls) started so far
    prev_records,     \* history: articles_records when the last completed update began
    last_batch,       \* history: the argument of the last completed update
    new_articles,     \* history: the count the last completed update reported
    last_ok_pages,    \* history: the snapshot of the last run that completed before this one
    x_rule,           \* extractor run: the keyword arguments of the call
    x_in,             \* extractor run: href and date of the card under test
    x_soup,           \* extractor run: the parsed listing
    x_out             \* extractor run: [raised, val] once the call has ended

storeVars == <<articles_records, csv_file, prev_records, last_batch, new_articles>>
runVars == <<pages, site_i, articles, art_i, unique_articles, browsers, last_ok_pages>>
extractVars == <<x_rule, x_in, x_soup, x_out>>

vars == <<pc, today, error, runs, storeVars, runVars, extractVars>>

----------------------------------------------------------------------------
(* Strings *)

Str(s) == [i \in 1..Len(s) |-> SubSeq(s, i, i)]

None == <<"None">>

\* the mutant of Truthy: every value counts as non-empty
AlwaysTruthy(s) == TRUE

\* Python truthiness of a str-or-None value
Truthy(s) == s # None /\ s # <<>>

StartsWith(s, p) == Len(s) >= Len(p) /\ SubSeq(s, 1, Len(p)) = p

\* s[1:]
DropFirst(s) == SubSeq(s, 2, Len(s))

Digits == {"0", "1", "2", "3", "4", "5", "6", "7", "8", "9"}

DigitVal(c) == CASE c = "0" -> 0 [] c = "1" -> 1 [] c = "2" -> 2 [] c = "3" -> 3
                 [] c = "4" -> 4 [] c = "5" -> 5 [] c = "6" -> 6 [] c = "7" -> 7
                 [] c = "8" -> 8 [] c = "9" -> 9

DigitChar(n) == CASE n = 0 -> "0" [] n = 1 -> "1" [] n = 2 -> "2" [] n = 3 -> "3"
                  [] n = 4 -> "4" [] n = 5 -> "5" [] n = 6 -> "6" [] n = 7 -> "7"
                  [] n = 8 -> "8" [] n = 9 -> "9"

AllDigits(s) == \A i \in 1..Len(s) : s[i] \in Digits

RECURSIVE IntOf(_)
\* int(s) for a non-empty string of decimal digits
IntOf(s) == IF Len(s) = 0 THEN 0
            ELSE 10 * IntOf(SubSeq(s, 1, Len(s) - 1)) + DigitVal(s[Len(s)])

\* str.find(c): the first index (from 1) of character c, 0 when absent
FindChar(s, c) == IF \E i \in 1..Len(s) : s[i] = c
                  THEN CHOOSE i \in 1..Len(s) : s[i] = c /\ \A j \in 1..(i - 1) : s[j] # c
                  ELSE 0

UpperAlpha == Str("ABCDEFGHIJKLMNOPQRSTUVWXYZ")
LowerAlpha == Str("abcdefghijklmnopqrstuvwxyz")

LowerTable == [c \in {UpperAlpha[i] : i \in 1..26} |->
                  LowerAlpha[CHOOSE i \in 1..26 : UpperAlpha[i] = c]]
UpperTable == [c \in {LowerAlpha[i] : i \in 1..26} |->
                  UpperAlpha[CHOOSE i \in 1..26 : LowerAlpha[i] = c]]

\* str.lower() and str.upper()
Lower(s) ==
    [i \in 1..Len(s) |-> IF s[i] \in DOMAIN LowerTable THEN LowerTable[s[i]] ELSE s[i]]
Upper(s) ==
    [i \in 1..Len(s) |-> IF s[i] \in DOMAIN UpperTable THEN UpperTable[s[i]] ELSE s[i]]

\* 'p in s' for strings
Contains(s, p) == \E i \in 1..(Len(s) - Len(p) + 1) : SubSeq(s, i, i + Len(p) - 1) = p

\* f"{v}" of a str-or-None value
Fmt(v) == IF v = None THEN Str("None") ELSE v

\* the characters str.strip() removes and \\s matches
Whitespace == {" ", "\t", "\n", "\r", "\f", "\\x0b", "\\xa0"}

RECURSIVE LStrip(_)
LStrip(s) == IF Len(s) > 0 /\ s[1] \in Whitespace THEN LStrip(DropFirst(s)) ELSE s

RECURSIVE RStrip(_)
RStrip(s) ==
    IF Len(s) > 0 /\ s[Len(s)] \in Whitespace THEN RStrip(SubSeq(s, 1, Len(s) - 1)) ELSE s

\* str.strip(); Tag.get_text(strip=True) of an element holding one text node
GetTextStrip(s) == LStrip(RStrip(s))

----------------------------------------------------------------------------
(* URL resolution of the generic extractor *)

ResolveUrl(link_url, source_url) ==
    IF ~StartsWith(link_url, Str("https"))
    THEN source_url \o (IF StartsWith(link_url, Str(".")) THEN DropFirst(link_url)
                        ELSE IF ~StartsWith(link_url, Str("/")) THEN Str("/") \o link_url
                        ELSE link_url)
    ELSE link_url

----------------------------------------------------------------------------
(* Dates: datetime.strptime, strftime and timedelta arithmetic *)

IsLeap(y) == (y % 4 = 0) /\ ((y % 100 # 0) \/ (y % 400 = 0))

DaysInMonth(y, m) == IF m = 2 THEN (IF IsLeap(y) THEN 29 ELSE 28)
                     ELSE IF m \in {4, 6, 9, 11} THEN 30 ELSE 31

RECURSIVE DaysBeforeMonth(_, _)
DaysBeforeMonth(y, m) == IF m = 1 THEN 0
                         ELSE DaysBeforeMonth(y, m - 1) + DaysInMonth(y, m - 1)

DaysBeforeYear(y) == (y - 1) * 365 + ((y - 1) \div 4) - ((y - 1) \div 100) + ((y - 1) \div 400)

\* date.toordinal(): 0001-01-01 is day 1
ToOrdinal(d) == DaysBeforeYear(d[1]) + DaysBeforeMonth(d[1], d[2]) + d[3]

\* date.fromordinal(n) for n >= 1
FromOrdinal(n) ==
    LET y == CHOOSE yy \in (n \div 366)..((n \div 365) + 1) :
                 yy >= 1 /\ DaysBeforeYear(yy) < n /\ n <= DaysBeforeYear(yy + 1)
        r == n - DaysBeforeYear(y)
        m == CHOOSE mm \in 1..12 :
                 DaysBeforeMonth(y, mm) < r /\ r <= DaysBeforeMonth(y, mm) + DaysInMonth(y, mm)
    IN  <<y, m, r - DaysBeforeMonth(y, m)>>

Pad2(n) == <<DigitChar(n \div 10), DigitChar(n % 10)>>

Pad4(n) == <<DigitChar(n \div 1000), DigitChar((n \div 100) % 10),
             DigitChar((n \div 10) % 10), DigitChar(n % 10)>>

\* the mutant of Strftime: month and day written without zero padding
StrftimeNoPad(d) ==
    Pad4(d[1]) \o Str("-") \o (IF d[2] < 10 THEN <<DigitChar(d[2])>> ELSE Pad2(d[2]))
               \o Str("-") \o (IF d[3] < 10 THEN <<DigitChar(d[3])>> ELSE Pad2(d[3]))

\* date.strftime("%Y-%m-%d")
Strftime(d) == Pad4(d[1]) \o Str("-") \o Pad2(d[2]) \o Str("-") \o Pad2(d[3])

FullMonths == <<Str("january"), Str("february"), Str("march"), Str("april"), Str("may"),
                Str("june"), Str("july"), Str("august"), Str("september"), Str("october"),
                Str("november"), Str("december")>>

AbbrMonths == <<Str("jan"), Str("feb"), Str("mar"), Str("apr"), Str("may"), Str("jun"),
                Str("jul"), Str("aug"), Str("sep"), Str("oct"), Str("nov"), Str("dec")>>

\* the month whose name (ignoring case) is s, 0 when none
MonthOf(names, s) == IF \E m \in 1..12 : names[m] = Lower(s)
                     THEN CHOOSE m \in 1..12 : names[m] = Lower(s) ELSE 0

\* %d: 3[0-1]|[1-2]\d|0[1-9]|[1-9]| [1-9]   (0: no match)
DField(s) ==
    IF Len(s) = 1 /\ s[1] \in Digits \ {"0"} THEN DigitVal(s[1])
    ELSE IF Len(s) = 2 /\ ( (s[1] = "3" /\ s[2] \in {"0", "1"})
                         \/ (s[1] \in {"1", "2"} /\ s[2] \in Digits)
                         \/ (s[1] = "0" /\ s[2] \in Digits \ {"0"}) )
         THEN IntOf(s)
    ELSE IF Len(s) = 2 /\ s[1] = " " /\ s[2] \in Digits \ {"0"} THEN DigitVal(s[2])
    ELSE 0

\* %m: 1[0-2]|0[1-9]|[1-9]   (0: no match)
MField(s) ==
    IF Len(s) = 1 /\ s[1] \in Digits \ {"0"} THEN DigitVal(s[1])
    ELSE IF Len(s) = 2 /\ ( (s[1] = "1" /\ s[2] \in {"0", "1", "2"})
                         \/ (s[1] = "0" /\ s[2] \in Digits \ {"0"}) )
         THEN IntOf(s)
    ELSE 0

\* %Y: \d\d\d\d   (-1: no match)
YField(s) == IF Len(s) = 4 /\ AllDigits(s) THEN IntOf(s) ELSE -1

NoDate == [ok |-> FALSE, date |-> <<0, 0, 0>>]

\* the date constructor: ValueError for year 0 and for a day the month lacks
MakeDate(y, m, d) ==
    IF y >= 1 /\ m \in 1..12 /\ d >= 1 /\ d <= DaysInMonth(y, IF m \in 1..12 THEN m ELSE 1)
    THEN [ok |-> TRUE, date |-> <<y, m, d>>] ELSE NoDate

\* "<month name> %d, %Y": name, \s+, day, a comma, \s+, year, and nothing after
StrptimeNamed(names, s) ==
    LET i == FindChar(s, " ")
        rest == IF i = 0 THEN <<>> ELSE LStrip(SubSeq(s, i, Len(s)))
        c == FindChar(rest, ",")
        after == IF c = 0 THEN <<>> ELSE SubSeq(rest, c + 1, Len(rest))
    IN  IF i = 0 \/ c = 0 \/ ~StartsWith(after, Str(" ")) THEN NoDate
        ELSE LET m == MonthOf(names, SubSeq(s, 1, i - 1))
                 d == DField(SubSeq(rest, 1, c - 1))
                 y == YField(LStrip(after))
             IN  IF m = 0 \/ d = 0 \/ y = -1 THEN NoDate ELSE MakeDate(y, m, d)

\* three fields separated by the character sep, the year last
SplitThree(s, sep) ==
    LET a == FindChar(s, sep)
        t == IF a = 0 THEN <<>> ELSE SubSeq(s, a + 1, Len(s))
        b == FindChar(t, sep)
    IN  IF a = 0 \/ b = 0 THEN <<>>
        ELSE <<SubSeq(s, 1, a - 1), SubSeq(t, 1, b - 1), SubSeq(t, b + 1, Len(t))>>

\* datetime.strptime(s, fmt) for the four formats of the extractor
Strptime(s, fmt) ==
    CASE fmt = "%B %d, %Y" -> StrptimeNamed(FullMonths, s)
      [] fmt = "%b %d, %Y" -> StrptimeNamed(AbbrMonths, s)
      [] fmt = "%m.%d.%Y" ->
            LET f == SplitThree(s, ".")
            IN  IF f = <<>> \/ MField(f[1]) = 0 \/ DField(f[2]) = 0 \/ YField(f[3]) = -1
                THEN NoDate ELSE MakeDate(YField(f[3]), MField(f[1]), DField(f[2]))
      [] fmt = "%d/%m/%Y" ->
            LET f == SplitThree(s, "/")
            IN  IF f = <<>> \/ DField(f[1]) = 0 \/ MField(f[2]) = 0 \/ YField(f[3]) = -1
                THEN NoDate ELSE MakeDate(YField(f[3]), MField(f[2]), DField(f[1]))

\* the index of the blank that starts " giorni fa" right after a digit
GiorniAt(s, j) == j >= 2 /\ j + 9 <= Len(s)
                  /\ s[j - 1] \in Digits /\ SubSeq(s, j, j + 9) = Str(" giorni fa")

\* re.search(r"\d+ giorni fa", s): the leftmost match, its digits taken greedily;
\* then int() of the digits.  -1 when there is no match.
DaysMatch(s) ==
    IF \E j \in 1..Len(s) : GiorniAt(s, j)
    THEN LET j == CHOOSE k \in 1..Len(s) : GiorniAt(s, k) /\ \A l \in 1..(k - 1) : ~GiorniAt(s, l)
             b == CHOOSE k \in 1..(j - 1) :
                      /\ \A l \in k..(j - 1) : s[l] \in Digits
                      /\ (k = 1 \/ s[k - 1] \notin Digits)
         IN  IntOf(SubSeq(s, b, j - 1))
    ELSE -1

Returned(v) == [raised |-> FALSE, val |-> v]
Raised == [raised |-> TRUE, val |-> None]

\* (datetime.now() - timedelta(days=days)).strftime("%Y-%m-%d"); OverflowError when
\* days exceeds timedelta's range or the date would precede 0001-01-01
DaysAgo(now, days) ==
    IF days > 999999999 \/ ToOrdinal(now) - days < 1 THEN Raised
    ELSE Returned(Strftime(FromOrdinal(ToOrdinal(now) - days)))

formats == <<"%B %d, %Y", "%b %d, %Y", "%m.%d.%Y", "%d/%m/%Y">>

RECURSIVE TextDateFrom(_, _, _)
\* the loop over formats from the k-th on: the relative-date test sits in the
\* except branch of each format and ends the loop when it matches
TextDateFrom(date_str, now, k) ==
    IF k > Len(formats) THEN Returned(None)
    ELSE LET p == Strptime(date_str, formats[k])
         IN  IF p.ok THEN Returned(Strftime(p.date))
             ELSE IF DaysMatch(date_str) # -1 THEN DaysAgo(now, DaysMatch(date_str))
             ELSE TextDateFrom(date_str, now, k + 1)

\* the attribute path: the value cut at the first "T"
AttrDate(date_str) ==
    LET time_index == FindChar(date_str, "T")
    IN  IF time_index # 0 THEN SubSeq(date_str, 1, time_index - 1) ELSE date_str

----------------------------------------------------------------------------
(* Parsed HTML.  An element is a record
     [tag, cls, href, datetime, text, kids]
   cls is the sequence of its CSS classes (<<>>: no class attribute), href and
   datetime are attribute values (None: the attribute is absent), text is its
   text node, kids are its descendants in document order.  Tag and class names
   are atoms; "" stands for a keyword argument left at None. *)

El(tag, cls, href, datetime, text, kids) ==
    [tag |-> tag, cls |-> cls, href |-> href, datetime |-> datetime, text |-> text,
     kids |-> kids]

Leaf(tag, cls, href, datetime, text) == El(tag, cls, href, datetime, text, <<>>)

HasClass(el, name) == \E i \in 1..Len(el.cls) : el.cls[i] = name

RECURSIVE Descendants(_)
\* every element below the root of a soup, in document order
Descendants(elems) ==
    IF elems = <<>> THEN <<>>
    ELSE <<Head(elems)>> \o Descendants(Head(elems).kids) \o Descendants(Tail(elems))

\* find_all(tag) and find_all(tag, class_=name) over the elements below a node
FindAll(elems, tag, name) ==
    SelectSeq(Descendants(elems),
              LAMBDA el : el.tag = tag /\ (name = "" \/ HasClass(el, name)))

\* find(...): the first element find_all gives, NoElement when there is none
NoElement == Leaf("", <<>>, None, None, <<>>)

Find(elems, tag, name) ==
    IF FindAll(elems, tag, name) = <<>> THEN NoElement ELSE FindAll(elems, tag, name)[1]

\* 'attr in tag.attrs' and tag[attr]
HasAttr(el, attr) == (attr = "href" /\ el.href # None) \/ (attr = "datetime" /\ el.datetime # None)

AttrOf(el, attr) == IF attr = "href" THEN el.href ELSE el.datetime

Soup(elems) == [found |-> TRUE, elems |-> elems]
NoSoup == [found |-> FALSE, elems |-> <<>>]

(* A class selector is None, a class name or a list of class names. *)
NoSel == [kind |-> "none", names |-> <<>>]
SelStr(name) == [kind |-> "str", names |-> <<name>>]
SelList(names) == [kind |-> "list", names |-> names]

\* Python truthiness of a selector
SelTruthy(sel) == (sel.kind = "str" /\ sel.names[1] # "") \/ (sel.kind = "list" /\ sel.names # <<>>)

\* the mutant of Min: the list is never cut
MinUncapped(a, b) == a

Min(a, b) == IF a <= b THEN a ELSE b

----------------------------------------------------------------------------
(* ArticlesDatabase.is_article_already_fetched *)

\* the mutant of IsArticleAlreadyFetched: nothing is ever known
IsArticleNeverFetched(records, url) == FALSE

IsArticleAlreadyFetched(records, url) == \E i \in 1..Len(records) : records[i].url = url

----------------------------------------------------------------------------
(* NewsRetriever.__parse_website_for_article_links *)

max_articles_per_site == 2

Stub(title, publish_date, url, source_url, source) ==
    [title |-> title, publish_date |-> publish_date, url |-> url, source_url |-> source_url,
     source |-> source, authors |-> <<>>, pdf_url |-> None, text |-> None]

\* the mutant of ArticlesInSite: the class selector is not applied
ArticlesInSiteAnyClass(soup, rule) ==
    FindAll(soup,
            IF rule.article_wrapper_html_tag # "" THEN rule.article_wrapper_html_tag
            ELSE rule.article_html_tag,
            "")

\* the elements the loop runs over, before the cap
ArticlesInSite(soup, rule) ==
    LET article_tag_to_extract ==
            IF rule.article_wrapper_html_tag # "" THEN rule.article_wrapper_html_tag
            ELSE rule.article_html_tag
        article_class_to_extract ==
            IF SelTruthy(rule.article_wrapper_class) THEN rule.article_wrapper_class
            ELSE rule.article_class
    IN  IF SelTruthy(article_class_to_extract)
        THEN IF article_class_to_extract.kind = "list"
             THEN SelectSeq(FindAll(soup, article_tag_to_extract, ""),
                      LAMBDA el : el.cls # <<>> /\
                          \E i \in 1..Len(article_class_to_extract.names) :
                              HasClass(el, article_class_to_extract.names[i]))
             ELSE FindAll(soup, article_tag_to_extract, article_class_to_extract.names[1])
        ELSE FindAll(soup, article_tag_to_extract, "")

\* find(tag, class_=cls) for the classes of a list in turn, the first hit wins
FindFirstOf(elems, tag, names) ==
    IF \E i \in 1..Len(names) : Find(elems, tag, names[i]) # NoElement
    THEN Find(elems, tag, names[CHOOSE i \in 1..Len(names) :
                  /\ Find(elems, tag, names[i]) # NoElement
                  /\ \A j \in 1..(i - 1) : Find(elems, tag, names[j]) = NoElement])
    ELSE NoElement

FindBySel(elems, tag, sel) ==
    IF SelTruthy(sel)
    THEN IF sel.kind = "list" THEN FindFirstOf(elems, tag, sel.names)
         ELSE Find(elems, tag, sel.names[1])
    ELSE Find(elems, tag, "")

\* the href of a candidate, None when the candidate is skipped
LinkHref(article_tag, rule) ==
    IF rule.article_wrapper_html_tag # ""
    THEN LET article_link == FindBySel(article_tag.kids, rule.article_html_tag, rule.article_class)
         IN  IF article_link # NoElement /\ HasAttr(article_link, "href")
             THEN article_link.href ELSE None
    ELSE article_tag.href

TitleOf(article_tag, rule) ==
    LET title_tag == FindBySel(article_tag.kids, rule.title_html_tag, rule.title_class)
    IN  IF title_tag # NoElement THEN GetTextStrip(title_tag.text) ELSE None

\* the mutant of PublishDate: the class set for time_tag_index > 0 is kept
PublishDateNoRestore(article_tag, rule, time_class, now) ==
    LET found == FindAll(article_tag.kids, rule.date_html_tag, time_class)
    IN  IF found # <<>> /\ rule.time_tag_index < Len(found)
        THEN LET time_tag == found[rule.time_tag_index + 1]
                 previous_time_class == time_class
                 used_class == IF rule.time_tag_index > 0 THEN "mistral" ELSE time_class
                 res == IF used_class = ""
                        THEN IF rule.time_html_attr # "" /\ HasAttr(time_tag, rule.time_html_attr)
                             THEN Returned(AttrDate(AttrOf(time_tag, rule.time_html_attr)))
                             ELSE Returned(None)
                        ELSE TextDateFrom(GetTextStrip(time_tag.text), now, 1)
             IN  [raised |-> res.raised, val |-> res.val,
                  time_class |-> used_class]
        ELSE [raised |-> FALSE, val |-> None, time_class |-> time_class]

\* lines 500-545: [raised, val, time_class], time_class as the iteration leaves it
PublishDate(article_tag, rule, time_class, now) ==
    LET found == FindAll(article_tag.kids, rule.date_html_tag, time_class)
    IN  IF found # <<>> /\ rule.time_tag_index < Len(found)
        THEN LET time_tag == found[rule.time_tag_index + 1]
                 previous_time_class == time_class
                 used_class == IF rule.time_tag_index > 0 THEN "mistral" ELSE time_class
                 res == IF used_class = ""
                        THEN IF rule.time_html_attr # "" /\ HasAttr(time_tag, rule.time_html_attr)
                             THEN Returned(AttrDate(AttrOf(time_tag, rule.time_html_attr)))
                             ELSE Returned(None)
                        ELSE TextDateFrom(GetTextStrip(time_tag.text), now, 1)
             IN  [raised |-> res.raised, val |-> res.val,
                  time_class |-> IF used_class = "mistral" THEN previous_time_class
                                 ELSE used_class]
        ELSE [raised |-> FALSE, val |-> None, time_class |-> time_class]

\* the mutant of AppendIfNew: the stub is appended whether or not it is known
AppendAlways(list, stub, records) == Append(list, stub)

\* lines 547-556, 316-323, 367-374, 610-621: the stub is kept only if its url is not known
AppendIfNew(list, stub, records) ==
    IF ~IsArticleAlreadyFetched(records, stub.url) THEN Append(list, stub) ELSE list

RECURSIVE LinksLoop(_, _, _, _, _, _, _)
\* the for loop from the i-th candidate on; st = [articles, time_class]
LinksLoop(cands, i, st, rule, records, now, cap) ==
    IF i > Min(Len(cands), cap) THEN Returned(st.articles)
    ELSE LET article_tag == cands[i]
             href == LinkHref(article_tag, rule)
         IN  IF href = None THEN LinksLoop(cands, i + 1, st, rule, records, now, cap)
             ELSE LET link_url == ResolveUrl(href, rule.source_url)
                      title == TitleOf(article_tag, rule)
                      pd == PublishDate(article_tag, rule, st.time_class, now)
                  IN  IF pd.raised THEN Raised
                      ELSE LinksLoop(cands, i + 1,
                               [articles |-> AppendIfNew(st.articles,
                                                Stub(title, pd.val, link_url, rule.source_url,
                                                     rule.source), records),
                                time_class |-> pd.time_class],
                               rule, records, now, cap)

\* soup = [found, elems]; a soup that is None (soup.find(...) found no listing
\* region) raises AttributeError at find_all
ParseWebsiteForArticleLinks(soup, rule, records, now) ==
    IF ~soup.found THEN Raised
    ELSE LinksLoop(ArticlesInSite(soup.elems, rule), 1,
                   [articles |-> <<>>, time_class |-> rule.time_class],
                   rule, records, now, max_articles_per_site)

----------------------------------------------------------------------------
(* The calls __scrape_websites makes to the generic extractor *)

Rule(source_url, source, article_class, title_class, article_html_tag, title_html_tag, date_html_tag, time_class, time_html_attr, article_wrapper_class, article_wrapper_html_tag, time_tag_index) ==
    [source_url |-> source_url, source |-> source, article_class |-> article_class,
     title_class |-> title_class, article_html_tag |-> article_html_tag,
     title_html_tag |-> title_html_tag, date_html_tag |-> date_html_tag,
     time_class |-> time_class, time_html_attr |-> time_html_attr,
     article_wrapper_class |-> article_wrapper_class,
     article_wrapper_html_tag |-> article_wrapper_html_tag,
     time_tag_index |-> time_tag_index]

DEEPMIND_URL == Str("https://deepmind.google")
ANTHROPIC_URL == Str("https://www.anthropic.com")
VERGE_URL == Str("https://www.theverge.com")
WIRED_URL == Str("https://www.wired.com")
MISTRAL_URL == Str("https://mistral.ai")
PERPLEXITY_URL == Str("https://www.perplexity.ai")
META_AI_URL == Str("https://ai.meta.com")
ARXIV_URL == Str("https://arxiv.org")

DeepmindRule ==
    Rule(DEEPMIND_URL, Str("deepmind"), SelStr("glue-card card"), SelStr("glue-headline"),
         "a", "p", "time", "", "datetime", NoSel, "", 0)

AnthropicRule ==
    Rule(ANTHROPIC_URL, Str("anthropic"), SelStr("PostCard_post-card__z_Sqq"),
         SelStr("PostCard_post-heading__Ob1pu"), "a", "h3", "div",
         "PostList_post-date__djrOA", "", NoSel, "", 0)

VergeRule ==
    Rule(VERGE_URL, Str("theverge"), SelStr("_1lkmsmo1"), SelStr("_1lkmsmo1"), "a", "a", "time",
         "", "datetime", SelList(<<"_184mfto4", "_1pm20r51", "_1dqvz267", "_1dqvz265">>),
         "div", 0)

WiredRule ==
    Rule(WIRED_URL, Str("wired"), SelStr("summary-item__hed-link"), SelStr("summary-item__hed"),
         "a", "h3", "time", "summary-item__publish-date", "", SelStr("summary-item__content"),
         "div", 0)

MistralRule ==
    Rule(MISTRAL_URL, Str("mistral"), NoSel, NoSel, "a", "h3", "span", "", "", SelStr("blog-fade-in"),
         "div", 1)

PerplexityRule ==
    Rule(PERPLEXITY_URL, Str("perplexity_ai"), SelStr("framer-fkCik"), SelStr("framer-text"),
         "a", "h4", "p", "framer-text", "", NoSel, "", 0)

MetaRule ==
    Rule(META_AI_URL, Str("meta_ai"), SelStr("_amcw _amdf"), SelStr("_amcw _amdf"), "a", "a", "div",
         "_amdj", "", SelStr("_amdc"), "div", 1)

----------------------------------------------------------------------------
(* Listing pages: the cards the rules above select *)

ClsOf(sel) == IF sel.kind = "none" THEN <<>> ELSE <<sel.names[1]>>

\* the title lives on the link itself when the rule names the same tag and class
\* for both (theverge, meta_ai)
TitleOnLink(rule) ==
    rule.title_html_tag = rule.article_html_tag /\ rule.title_class = rule.article_class

\* one card of a listing: a link with href (None: no href attribute), a title
\* and the date elements dates
Card(rule, href, title, dates) ==
    IF rule.article_wrapper_html_tag # ""
    THEN El(rule.article_wrapper_html_tag, ClsOf(rule.article_wrapper_class), None, None, <<>>,
            <<Leaf(rule.article_html_tag, ClsOf(rule.article_class), href, None,
                   IF TitleOnLink(rule) THEN title ELSE <<>>)>>
            \o (IF TitleOnLink(rule) THEN <<>>
                ELSE <<Leaf(rule.title_html_tag, ClsOf(rule.title_class), None, None, title)>>)
            \o dates)
    ELSE El(rule.article_html_tag, ClsOf(rule.article_class), href, None, <<>>,
            <<Leaf(rule.title_html_tag, ClsOf(rule.title_class), None, None, title)>> \o dates)

\* the date elements of a card as the rule locates them, each with a datetime
\* attribute (None: absent) and a visible text: the one that carries value and
\* text is the one the rule reads, the second for rules with time_tag_index 1
DatesOf(rule, value, text) ==
    LET el(v, t) == Leaf(rule.date_html_tag,
                         IF rule.time_class = "" THEN <<>> ELSE <<rule.time_class>>, None, v, t)
    IN  IF rule.time_tag_index = 0 THEN <<el(value, text)>>
        ELSE <<el(None, Str("Research")), el(value, text)>>

Hrefs ==
    { Str("/a/b"), Str("./c"), Str("d"), Str(".c"), Str("../e"), Str(""), Str("//cdn.x/f"),
      Str("https://x.ai/n"), Str("http://x.ai/n"), Str("https"), None }

\* the <time>/<div>/<span> a card carries, as <<datetime attribute, text>>: text
\* only, attribute only, or both
DateInputs ==
    { <<None, t>> : t \in
        { Str("January 5, 2024"), Str("jan 5, 2024"), Str("May 31, 2024"),
          Str("February 29, 2024"), Str("February 29, 2023"), Str("Sept 5, 2024"),
          Str("01.05.2024"), Str("13.05.2024"), Str("1. 5.2024"), Str("31/12/1999"),
          Str("5/13/2024"), Str("January 5, 0000"), Str("5 giorni fa"),
          Str("circa 366 giorni fa"), Str("0 giorni fa"), Str("5 giorni"),
          Str("999999 giorni fa"), Str("Jan 5, 2024 3 giorni fa"), Str(" March 1, 2024 "),
          Str("2024-01-05"), Str("x"), Str("") } }
    \cup { <<v, <<>>>> : v \in
        { Str("2024-01-05T10:00:00Z"), Str("2024-01-05"), Str("2024-01-05 10:00"),
          Str("Tuesday"), Str("5 May 2024"), Str("") } }
    \cup { <<Str("2024-02-01T08:00"), Str("February 2, 2024")>> }

Record(url, article_file_path, title, source, publish_date, has_text, is_new) ==
    [url |-> url, article_file_path |-> article_file_path, title |-> title,
     source |-> source, publish_date |-> publish_date, has_text |-> has_text,
     is_new |-> is_new]

----------------------------------------------------------------------------
(* ArticlesDatabase *)

SetOf(s) == {s[i] : i \in 1..Len(s)}

invalid_chars == SetOf(Str("<>:\"/\\|?*"))

\* string.printable, without the backquote, which a TLA+ string cannot hold
Printable ==
    Digits \cup SetOf(LowerAlpha) \cup SetOf(UpperAlpha)
    \cup SetOf(Str("!\"#$%&'()*+,-./:;<=>?@[\\]^_{|}~"))
    \cup {" ", "\t", "\n", "\r", "\\x0b", "\f"}

reserved_names ==
    { Str("CON"), Str("PRN"), Str("AUX"), Str("NUL"),
      Str("COM1"), Str("COM2"), Str("COM3"), Str("COM4"), Str("COM5"), Str("COM6"),
      Str("COM7"), Str("COM8"), Str("COM9"),
      Str("LPT1"), Str("LPT2"), Str("LPT3"), Str("LPT4"), Str("LPT5"), Str("LPT6"),
      Str("LPT7"), Str("LPT8"), Str("LPT9") }

\* os.path.splitext of a name without separators: <<root, ext>>; a name made of
\* leading dots only up to its last dot has no extension
SplitExt(s) ==
    LET i == IF \E k \in 1..Len(s) : s[k] = "."
             THEN CHOOSE k \in 1..Len(s) : s[k] = "." /\ \A j \in (k + 1)..Len(s) : s[j] # "."
             ELSE 0
    IN  IF i = 0 \/ \A j \in 1..(i - 1) : s[j] = "." THEN <<s, <<>>>>
        ELSE <<SubSeq(s, 1, i - 1), SubSeq(s, i, Len(s))>>

RECURSIVE StripSpaceDot(_)
\* str.strip(' .')
StripSpaceDot(s) ==
    IF Len(s) > 0 /\ s[1] \in {" ", "."} THEN StripSpaceDot(DropFirst(s))
    ELSE IF Len(s) > 0 /\ s[Len(s)] \in {" ", "."} THEN StripSpaceDot(SubSeq(s, 1, Len(s) - 1))
    ELSE s

\* ArticlesDatabase.__safe_filename
SafeFilename(filename) ==
    LET f1 == SelectSeq(filename, LAMBDA c : c \notin invalid_chars)
        f2 == SelectSeq(f1, LAMBDA c : c \in Printable)
        f3 == [i \in 1..Len(f2) |-> IF f2[i] \in {" ", "-"} THEN "_" ELSE f2[i]]
        base_name == Upper(SplitExt(f3)[1])
        f4 == IF base_name \in reserved_names
              THEN IF \E i \in 1..Len(f3) : f3[i] = "."
                   THEN SplitExt(f3)[1] \o Str("_") \o SplitExt(f3)[2]
                   ELSE f3 \o Str("_")
              ELSE f3
        f5 == StripSpaceDot(f4)
    IN  IF f5 = <<>> THEN Str("unnamed_file") ELSE f5

\* the name both writers build from title, source and publish_date
ArticleFileStem(article) ==
    Fmt(article.title) \o Str("_") \o Fmt(article.source) \o Str("_") \o Fmt(article.publish_date)

\* __save_article_to_txt: the path, below the docs folder, of the file written
SaveArticleToTxt(article) == Lower(SafeFilename(ArticleFileStem(article) \o Str(".txt")))

\* __download_pdf_from_url: the path of the text file that replaces the pdf
DownloadPdfFromUrl(article) == Lower(SafeFilename(ArticleFileStem(article))) \o Str(".txt")

\* the mutant of ResetIsNew: the flags of the rows already there are left alone
KeepIsNew(records) == records

\* the mutant of ResetIsNew: the call starts from an empty table
ClearRecords(records) == <<>>

\* line 45: is_new of every row is cleared
ResetIsNew(records) == [i \in 1..Len(records) |-> [records[i] EXCEPT !.is_new = FALSE]]

RECURSIVE UpdateLoop(_, _, _, _, _)
\* the for loop of update from the i-th article of the batch on.  unreachable is the set of
\* pdf urls whose download raises.  [raised, records, new_articles]
UpdateLoop(batch, i, records, count, unreachable) ==
    IF i > Len(batch)
    THEN [raised |-> FALSE, records |-> records, new_articles |-> count]
    ELSE LET article == batch[i]
             url == article.url
         IN  IF ~Truthy(url) THEN UpdateLoop(batch, i + 1, records, count, unreachable)
             ELSE IF IsArticleAlreadyFetched(records, url)
                  THEN UpdateLoop(batch, i + 1, records, count, unreachable)
             ELSE IF Truthy(article.pdf_url) /\ article.pdf_url \in unreachable
                  THEN [raised |-> TRUE, records |-> records, new_articles |-> count]
             ELSE UpdateLoop(batch, i + 1,
                      Append(records,
                          Record(url,
                                 IF Truthy(article.pdf_url) THEN DownloadPdfFromUrl(article)
                                 ELSE SaveArticleToTxt(article),
                                 article.title, article.source, article.publish_date,
                                 Truthy(article.text), TRUE)),
                      count + 1, unreachable)

\* ArticlesDatabase.update up to the write of articles.csv
UpdateRows(records, batch, unreachable) ==
    UpdateLoop(batch, 1, ResetIsNew(records), 0, unreachable)

\* DataFrame.to_csv / pandas.read_csv: None and the empty string are written as
\* an empty field, and an empty field is read back as NaN
NaN == <<"NaN">>

CsvField(v) == IF v = None \/ v = NaN THEN <<>> ELSE v

ToCsv(records) ==
    [i \in 1..Len(records) |->
        [records[i] EXCEPT !.title = CsvField(@), !.source = CsvField(@),
                           !.publish_date = CsvField(@)]]

ReadField(v) == IF v = <<>> THEN NaN ELSE v

\* the mutant of ReadCsv: a new process starts from an empty store
ReadCsvNothing(rows) == <<>>

ReadCsv(rows) ==
    [i \in 1..Len(rows) |->
        [rows[i] EXCEPT !.title = ReadField(@), !.source = ReadField(@),
                        !.publish_date = ReadField(@)]]

\* the mutant of GetNewArticles: every record is returned
GetEveryArticle(records) == records

\* get_new_articles
GetNewArticles(records) == SelectSeq(records, LAMBDA r : r.is_new)

----------------------------------------------------------------------------
(* One call of the generic extractor on a listing of max_articles_per_site + 1
   cards: the card under test, a card whose article may already be in the
   store, and cards that follow them. *)

\* the variables a specification does not use
NoRun ==
    /\ pages = <<>> /\ site_i = 0 /\ articles = <<>> /\ art_i = 0 /\ unique_articles = <<>>
    /\ browsers = [open |-> 0, peak |-> 0]
    /\ last_ok_pages = <<>>

NoExtract == x_rule = AnthropicRule /\ x_in = <<>> /\ x_soup = NoSoup /\ x_out = Returned(<<>>)

NoHistory == prev_records = <<>> /\ last_batch = <<>> /\ new_articles = 0

InitExtract ==
    /\ pc = "extract"
    /\ error = ""
    /\ runs = 0
    /\ today \in {<<2024, 3, 2>>, <<2025, 1, 3>>}
    \* the keyword arguments of five call sites, and three combinations the
    \* signature allows that no call site uses: a date attribute with a date
    \* class, neither of them, and no container class at all
    /\ x_rule \in {DeepmindRule, AnthropicRule, VergeRule, WiredRule, MistralRule,
                   [DeepmindRule EXCEPT !.time_class = "glue-label"],
                   [AnthropicRule EXCEPT !.time_class = ""],
                   [AnthropicRule EXCEPT !.article_class = NoSel]}
    \* the page: the card under test; three elements that differ from a card in
    \* the class attribute (none, another class) or in the tag; for a list
    \* selector an element with two classes, the second of them the last name
    \* of the list; the card of the known article; the cards past the cap
    /\ \E h \in Hrefs, d \in DateInputs :
           LET other == Card(x_rule, Str("/other"), Str("Other"), <<>>)
               sel == IF x_rule.article_wrapper_html_tag # "" THEN x_rule.article_wrapper_class
                      ELSE x_rule.article_class
           IN  /\ x_in = [href |-> h, value |-> d[1], text |-> d[2]]
               /\ x_soup = Soup(<<Card(x_rule, h, Str(" Title "), DatesOf(x_rule, d[1], d[2])),
                                  [other EXCEPT !.cls = <<>>],
                                  [other EXCEPT !.cls = <<"other">>],
                                  [other EXCEPT !.tag = "section"]>>
                                \o (IF sel.kind = "list"
                                    THEN <<[other EXCEPT !.cls = <<"other", sel.names[Len(sel.names)]>>]>>
                                    ELSE <<>>)
                                \o <<Card(x_rule, Str("/known"), Str("Old"),
                                          DatesOf(x_rule, Str("2024-01-04T09:00"),
                                                  Str("January 4, 2024")))>>
                                \o [k \in 1..(max_articles_per_site - 1) |->
                                       Card(x_rule, Str("/late") \o <<DigitChar(k)>>, Str("Late"), <<>>)])
    /\ articles_records \in
           { <<>>, <<Record(x_rule.source_url \o Str("/known"), Str("old.txt"), Str("Old"), Str("s"), NaN, TRUE, FALSE)>> }
    /\ x_out = Returned(<<>>)
    /\ csv_file = ToCsv(articles_records)
    /\ NoHistory
    /\ NoRun

ExtractLinks ==
    /\ pc = "extract"
    /\ x_out' = ParseWebsiteForArticleLinks(x_soup, x_rule, articles_records, today)
    /\ pc' = IF x_out'.raised THEN "raised" ELSE "extracted"
    /\ UNCHANGED <<today, error, runs, storeVars, runVars, x_rule, x_in, x_soup>>

SpecExtract == InitExtract /\ [][ExtractLinks]_vars

----------------------------------------------------------------------------
(* Claims about one call of the generic extractor (SpecExtract) *)

\* a URL scheme at the start of an href
HasScheme(h) == StartsWith(h, Str("https://")) \/ StartsWith(h, Str("http://"))

\* the path of a relative href as the claim describes it: one leading "."
\* stripped, then "/" prepended unless a "/" leads
SlashPath(h) ==
    LET p == IF StartsWith(h, Str(".")) THEN DropFirst(h) ELSE h
    IN  IF StartsWith(p, Str("/")) THEN p ELSE Str("/") \o p

\* the card under test has a link, so the first stub returned is its stub
TestEmitted == pc = "extracted" /\ x_in.href # None

TestStub == x_out.val[1]

\* which branch of lines 514-542 a rule takes
TextPath(rule) == rule.time_class # "" \/ rule.time_tag_index > 0
AttrPath(rule) == ~TextPath(rule) /\ rule.time_html_attr # ""

\* C5: for every href that does not start with a scheme the resolved url is
\* the site base URL followed by a path that begins with "/" (one leading "."
\* stripped, then "/" prepended when the rest lacks one).
C5_RelativeHrefUnderBase ==
    (TestEmitted /\ ~HasScheme(x_in.href)) =>
        TestStub.url = x_rule.source_url \o SlashPath(x_in.href)

\* C6: every href that starts with a scheme, http:// as well as https://, is
\* emitted unchanged as the stub url.
C6_SchemeHrefUnchanged ==
    (TestEmitted /\ HasScheme(x_in.href)) => TestStub.url = x_in.href

IsYMD(s) ==
    /\ s # None
    /\ Len(s) = 10
    /\ \A i \in {1, 2, 3, 4, 6, 7, 9, 10} : s[i] \in Digits
    /\ s[5] = "-" /\ s[8] = "-"

\* pd is v up to, and without, its first "T"
IsCutAtT(pd, v) ==
    /\ Len(pd) <= Len(v)
    /\ SubSeq(v, 1, Len(pd)) = pd
    /\ \A i \in 1..Len(pd) : pd[i] # "T"
    /\ (Len(pd) = Len(v) \/ v[Len(pd) + 1] = "T")

\* C8 as stated: every stub's publish_date is null or of the form YYYY-MM-DD,
\* on the attribute path (whatever the attribute value) and on the text path.
C8_DateNullOrYMD ==
    pc = "extracted" =>
        \A i \in 1..Len(x_out.val) :
            x_out.val[i].publish_date = None \/ IsYMD(x_out.val[i].publish_date)

\* C8 as amended: on the visible-text path publish_date is null or YYYY-MM-DD;
\* on the attribute path it is null when the attribute is absent and otherwise
\* the attribute value cut at its first "T", whatever that value is.
C8_DateYMDOrCutAttribute ==
    /\ pc = "extracted" =>
           \A i \in 1..Len(x_out.val) :
               \/ x_out.val[i].publish_date = None
               \/ IsYMD(x_out.val[i].publish_date)
               \/ AttrPath(x_rule)
    /\ (TestEmitted /\ AttrPath(x_rule)) =>
           IF x_in.value = None THEN TestStub.publish_date = None
           ELSE IsCutAtT(TestStub.publish_date, x_in.value)

\* C8 witness: the attribute path has passed a value through that is no date
C8_Witness ==
    /\ TestEmitted /\ AttrPath(x_rule) /\ x_in.value # None
    /\ ~IsYMD(TestStub.publish_date)

\* the reference of C10: the first explicit pattern that parses; only if none
\* does, today minus N days for "<N> giorni fa"; otherwise null.  The reference
\* has no value (raised) when that day lies before 0001-01-01, the first day a
\* date can hold.
RefTextDate(s, now) ==
    IF \E k \in 1..Len(formats) : Strptime(s, formats[k]).ok
    THEN LET k == CHOOSE n \in 1..Len(formats) :
                      /\ Strptime(s, formats[n]).ok
                      /\ \A l \in 1..(n - 1) : ~Strptime(s, formats[l]).ok
         IN  Returned(Strftime(Strptime(s, formats[k]).date))
    ELSE IF DaysMatch(s) # -1
         THEN IF ToOrdinal(now) - DaysMatch(s) >= 1
              THEN Returned(Strftime(FromOrdinal(ToOrdinal(now) - DaysMatch(s))))
              ELSE Raised
    ELSE Returned(None)

\* C10: on the visible-text path, for every date text, the extractor returns
\* and the date of the stub equals the reference: the relative pattern never
\* pre-empts an explicit one.
C10_TextDateIsReference ==
    (pc \in {"extracted", "raised"} /\ x_in.href # None /\ TextPath(x_rule)) =>
        /\ pc = "extracted"
        /\ Returned(TestStub.publish_date) = RefTextDate(GetTextStrip(x_in.text), today)

\* C10 without the date texts on which date resolution raises (C9): whenever
\* the extractor returns, the date of the stub equals the reference.
C10_ReferenceWhereReturned ==
    (TestEmitted /\ TextPath(x_rule)) =>
        Returned(TestStub.publish_date) = RefTextDate(GetTextStrip(x_in.text), today)

\* the urls the claim expects of one call: the containers past the first
\* max_articles_per_site are dropped, then the ones without href and the ones
\* whose url is known are skipped, and the rest keep their order
CapReference ==
    LET cands == ArticlesInSite(x_soup.elems, x_rule)
        n == IF Len(cands) < max_articles_per_site THEN Len(cands) ELSE max_articles_per_site
        url(c) == ResolveUrl(LinkHref(c, x_rule), x_rule.source_url)
        kept == SelectSeq(SubSeq(cands, 1, n),
                    LAMBDA c : /\ LinkHref(c, x_rule) # None
                               /\ \A j \in 1..Len(articles_records) :
                                      articles_records[j].url # url(c))
    IN  [i \in 1..Len(kept) |-> url(kept[i])]

\* C11: the generic extractor examines exactly the first
\* min(n, max_articles_per_site) matching containers in document order: the
\* urls of the stubs it returns are those of these containers, without the
\* containers skipped for a missing href or a known url, in document order;
\* no stub comes from a container past that position.
C11_FirstContainersOnly ==
    pc = "extracted" => [i \in 1..Len(x_out.val) |-> x_out.val[i].url] = CapReference

\* C11 witness: the listing holds more containers than the cap, the first one
\* was skipped for its missing href, and fewer stubs than the cap came back
C11_Witness ==
    /\ pc = "extracted"
    /\ Len(ArticlesInSite(x_soup.elems, x_rule)) > max_articles_per_site
    /\ x_in.href = None
    /\ Len(x_out.val) < max_articles_per_site

----------------------------------------------------------------------------
(* The record store on its own: update called with any batch (SpecStore) *)

MaxBatch == 2
MaxUpdates == 2

U1 == Str("https://x.ai/a")
U3 == Str("https://arxiv.org/abs/1")
P3 == Str("https://arxiv.org/pdf/1")

Article(url, title, pdf_url, text) ==
    [title |-> title, publish_date |-> Str("2024-01-05"), url |-> url,
     source_url |-> Str("https://x.ai"), source |-> Str("xai"), authors |-> <<>>,
     pdf_url |-> pdf_url, text |-> text]

\* stubs a caller may pass: two with the same url, one with a pdf and the title
\* of another, one without url
BatchArticles ==
    { Article(U1, Str("A"), None, Str("body")), Article(U1, None, None, <<>>),
      Article(U3, Str("A"), P3, None), Article(<<>>, Str("D"), None, Str("body")) }

\* the pdf urls of a batch
PdfUrls(batch) == {batch[i].pdf_url : i \in {j \in 1..Len(batch) : Truthy(batch[j].pdf_url)}}

RECURSIVE SeqsUpTo(_, _)
\* the sequences over S of length at most n
SeqsUpTo(S, n) ==
    IF n = 0 THEN {<<>>}
    ELSE SeqsUpTo(S, n - 1) \cup {Append(q, x) : q \in {r \in SeqsUpTo(S, n - 1) : Len(r) = n - 1}, x \in S}

\* rows articles.csv may hold when the program starts: urls pairwise distinct
StoredRows ==
    { <<>>,
      <<Record(U1, Str("a_xai_2024_01_05.txt"), Str("A"), Str("xai"), Str("2024-01-05"), TRUE, TRUE)>>,
      <<Record(Str("https://x.ai/b"), Str("none_xai_2024_01_05.txt"), <<>>, Str("xai"), Str("2024-01-05"), FALSE, FALSE),
        Record(U1, Str("a_xai_2024_01_05.txt"), Str("A"), Str("xai"), Str("2024-01-05"), TRUE, TRUE)>> }

\* ArticlesDatabase.__init__: the rows of articles.csv are read
InitStore ==
    /\ pc = "loaded"
    /\ error = ""
    /\ runs = 0
    /\ today \in {<<2024, 3, 2>>}
    /\ csv_file \in StoredRows
    /\ articles_records = ReadCsv(csv_file)
    /\ NoHistory
    /\ NoRun
    /\ NoExtract

\* the mutant of UpdateCall: articles.csv is written after every row, so a call
\* ended by a failing download leaves the rows appended before it on disk
UpdateCallWritesEachRow(batch, unreachable) ==
    LET r == UpdateRows(articles_records, batch, unreachable)
    IN  /\ articles_records' = r.records
        /\ csv_file' = ToCsv(r.records)
        /\ IF r.raised
           THEN /\ pc' = "crashed"
                /\ error' = "update"
                /\ UNCHANGED <<prev_records, last_batch, new_articles>>
           ELSE /\ pc' = "updated"
                /\ error' = ""
                /\ prev_records' = articles_records
                /\ last_batch' = batch
                /\ new_articles' = r.new_articles

\* ArticlesDatabase.update(batch), whole: the flags are cleared, the batch is
\* appended row by row, articles.csv is written.  A download that raises ends
\* the call (and the program) before the write.
UpdateCall(batch, unreachable) ==
    LET r == UpdateRows(articles_records, batch, unreachable)
    IN  /\ articles_records' = r.records
        /\ IF r.raised
           THEN /\ pc' = "crashed"
                /\ error' = "update"
                /\ UNCHANGED <<csv_file, prev_records, last_batch, new_articles>>
           ELSE /\ pc' = "updated"
                /\ error' = ""
                /\ csv_file' = ToCsv(r.records)
                /\ prev_records' = articles_records
                /\ last_batch' = batch
                /\ new_articles' = r.new_articles

StoreUpdate ==
    /\ pc \in {"loaded", "updated"}
    /\ runs < MaxUpdates
    /\ runs' = runs + 1
    /\ \E batch \in SeqsUpTo(BatchArticles, MaxBatch) : \E unreachable \in SUBSET PdfUrls(batch) :
           UpdateCall(batch, unreachable)
    /\ UNCHANGED <<today, runVars, extractVars>>

\* the program is started again: ArticlesDatabase.__init__ reads articles.csv
StoreReload ==
    /\ pc \in {"updated", "crashed"}
    /\ pc' = "loaded"
    /\ error' = ""
    /\ articles_records' = ReadCsv(csv_file)
    /\ UNCHANGED <<today, runs, csv_file, prev_records, last_batch, new_articles, runVars,
                   extractVars>>

SpecStore == InitStore /\ [][StoreUpdate \/ StoreReload]_vars

PairwiseDistinctUrls(rows) ==
    \A i, j \in 1..Len(rows) : i # j => rows[i].url # rows[j].url

\* C1: after any sequence of update calls on a store whose urls start out
\* pairwise distinct, no two records share a url, in memory and in articles.csv,
\* also when one batch holds the same url more than once.
C1_UrlsUnique == PairwiseDistinctUrls(articles_records) /\ PairwiseDistinctUrls(csv_file)

\* C1 witness: a batch that held one url twice has been processed
C1_Witness ==
    /\ pc = "updated"
    /\ \E i, j \in 1..Len(last_batch) :
           i # j /\ last_batch[i].url = last_batch[j].url /\ Truthy(last_batch[i].url)
    /\ new_articles > 0

\* C2: after every completed update, is_new is true exactly for the records
\* that call appended and false for every record that existed before it.
C2_IsNewExactlyAppended ==
    pc = "updated" =>
        /\ Len(articles_records) >= Len(prev_records)
        /\ \A i \in 1..Len(articles_records) :
               articles_records[i].is_new <=> (i > Len(prev_records))

\* C2 witness: a completed update found a row flagged new and appended nothing
C2_Witness ==
    /\ pc = "updated"
    /\ \E i \in 1..Len(prev_records) : prev_records[i].is_new
    /\ new_articles = 0

\* the positions of the batch the claim expects a record for: the first
\* occurrence of each url that is neither empty nor in the rows before the call
FirstNewOccurrences(batch, before) ==
    SelectSeq([i \in 1..Len(batch) |-> i],
              LAMBDA i : /\ batch[i].url \notin {None, <<>>}
                         /\ \A k \in 1..Len(before) : before[k].url # batch[i].url
                         /\ \A j \in 1..(i - 1) : batch[j].url # batch[i].url)

\* C20: a completed update leaves the rows it found (their flags cleared) and
\* appends exactly one record for each distinct url of the batch that is
\* non-empty and was not known before the call, with the fields of the first
\* stub that has this url; has_text is true iff that stub's text is non-empty;
\* nothing is appended for empty or known urls; the count reported is the
\* number of records appended.
C20_UpdateAppendsFirstNew ==
    pc = "updated" =>
        LET first == FirstNewOccurrences(last_batch, prev_records)
            n == Len(prev_records)
        IN  /\ Len(articles_records) = n + Len(first)
            /\ new_articles = Len(first)
            /\ \A k \in 1..n :
                   articles_records[k] = [prev_records[k] EXCEPT !.is_new = FALSE]
            /\ \A k \in 1..Len(first) :
                   LET row == articles_records[n + k]
                       stub == last_batch[first[k]]
                   IN  /\ row.url = stub.url
                       /\ row.title = stub.title
                       /\ row.source = stub.source
                       /\ row.publish_date = stub.publish_date
                       /\ row.has_text = (stub.text \notin {None, <<>>})
                       /\ row.is_new

\* C20 witness: a completed update of a batch that held one new url twice,
\* first with a text and then without, appended one record
C20_Witness ==
    /\ pc = "updated"
    /\ new_articles = 1
    /\ \E i, j \in 1..Len(last_batch) :
           /\ i < j
           /\ last_batch[i].url = last_batch[j].url
           /\ last_batch[i].text \notin {None, <<>>}
           /\ last_batch[j].text \in {None, <<>>}
           /\ articles_records[Len(articles_records)].url = last_batch[i].url

\* C21: a step of update, completed or ended by a failing download, removes
\* no record and leaves url, article_file_path, title, source, publish_date
\* and has_text of every record it found unchanged; only is_new may change.
C21_UpdateKeepsExistingRecords ==
    [][ runs' = runs + 1 =>
          /\ Len(articles_records') >= Len(articles_records)
          /\ \A k \in 1..Len(articles_records) :
                 /\ articles_records'[k].url = articles_records[k].url
                 /\ articles_records'[k].article_file_path = articles_records[k].article_file_path
                 /\ articles_records'[k].title = articles_records[k].title
                 /\ articles_records'[k].source = articles_records[k].source
                 /\ articles_records'[k].publish_date = articles_records[k].publish_date
                 /\ articles_records'[k].has_text = articles_records[k].has_text ]_vars

\* C21 witness: a completed update found records, one of them flagged new, and
\* appended a record
C21_Witness ==
    /\ pc = "updated"
    /\ \E k \in 1..Len(prev_records) : prev_records[k].is_new
    /\ new_articles > 0

\* C22: articles.csv is written once per update, after the last stub of the
\* batch: a call ended by a failing download leaves the file as it was before
\* the call, and after a completed call the file holds the rows in memory, row
\* by row (a null title, source or date being an empty field).
C22_FileWrittenAfterBatch ==
    [][ runs' = runs + 1 =>
          IF pc' = "crashed" THEN csv_file' = csv_file
          ELSE /\ Len(csv_file') = Len(articles_records')
               /\ \A k \in 1..Len(csv_file') :
                      LET row == csv_file'[k]
                          rec == articles_records'[k]
                          field(v) == IF v \in {None, NaN} THEN <<>> ELSE v
                      IN  /\ row.url = rec.url
                          /\ row.article_file_path = rec.article_file_path
                          /\ row.title = field(rec.title)
                          /\ row.source = field(rec.source)
                          /\ row.publish_date = field(rec.publish_date)
                          /\ row.has_text = rec.has_text
                          /\ row.is_new = rec.is_new ]_vars

\* C22 witness: a download failed after a record of the same batch had been
\* appended in memory, and the file holds fewer rows than the memory
C22_Witness ==
    /\ pc = "crashed" /\ error = "update"
    /\ Len(articles_records) > Len(csv_file)

\* C14: after any sequence of updates, two records with different urls never
\* have the same article_file_path.
C14_FilePathsDistinct ==
    \A i, j \in 1..Len(articles_records) :
        articles_records[i].url # articles_records[j].url =>
            articles_records[i].article_file_path # articles_records[j].article_file_path

----------------------------------------------------------------------------
(* NewsRetriever.__parse_article *)

RECURSIVE JoinWith(_, _)
\* sep.join(strs)
JoinWith(strs, sep) ==
    IF strs = <<>> THEN <<>>
    ELSE IF Len(strs) = 1 THEN strs[1]
    ELSE strs[1] \o sep \o JoinWith(Tail(strs), sep)

\* Tag.get_text(separator=sep, strip=True): the text nodes below the element
\* in document order, each stripped, the empty ones dropped, joined by sep
GetText(el, sep) ==
    LET below == Descendants(el.kids)
        strings == <<el.text>> \o [i \in 1..Len(below) |-> below[i].text]
    IN  JoinWith(SelectSeq([i \in 1..Len(strings) |-> GetTextStrip(strings[i])],
                           LAMBDA t : t # <<>>), sep)

\* the text of the content element, None when the page has none; the third
\* replace of line 754 replaces an apostrophe by an apostrophe
ParseArticle(soup, content_tag, content_class) ==
    LET content == Find(soup.elems, content_tag, content_class)
        text == GetText(content, Str(" "))
    IN  IF content # NoElement
        THEN [i \in 1..Len(text) |-> IF text[i] \in {"\\xa0", "\n"} THEN " " ELSE text[i]]
        ELSE None

----------------------------------------------------------------------------
(* The two string functions on their own (SpecText): __safe_filename on any
   name, __parse_article on any article page *)

MaxName == 4
MaxText == 4

\* a name handed to __safe_filename, or the page handed to __parse_article:
\* a content element with a text node of its own and a paragraph, or no
\* content element
InitText ==
    /\ error = ""
    /\ runs = 0
    /\ today = <<2024, 3, 2>>
    /\ articles_records = <<>> /\ csv_file = <<>>
    /\ x_rule = AnthropicRule
    /\ x_out = Returned(<<>>)
    /\ \/ /\ pc = "name"
          /\ x_in \in SeqsUpTo({"C", "o", "N", ".", " ", "-", "/", "\t", "\\xa0"}, MaxName)
          /\ x_soup = NoSoup
       \/ /\ pc = "page"
          /\ x_in = <<>>
          /\ \/ x_soup = Soup(<<Leaf("p", <<>>, None, None, Str("a"))>>)
             \/ \E t \in SeqsUpTo({"a", " ", "\n", "\\xa0"}, MaxText), u \in {<<>>, Str(" "), Str("b")} :
                    x_soup = Soup(<<El("div", <<"Body_body__XEXq7">>, None, None, t,
                                      <<Leaf("p", <<>>, None, None, u)>>)>>)
    /\ NoHistory
    /\ NoRun

SafeFilenameCall ==
    /\ pc = "name"
    /\ pc' = "named"
    /\ x_out' = Returned(SafeFilename(x_in))
    /\ UNCHANGED <<today, error, runs, storeVars, runVars, x_rule, x_in, x_soup>>

ParseArticleCall ==
    /\ pc = "page"
    /\ pc' = "parsed"
    /\ x_out' = Returned(ParseArticle(x_soup, "div", "Body_body__XEXq7"))
    /\ UNCHANGED <<today, error, runs, storeVars, runVars, x_rule, x_in, x_soup>>

SpecText == InitText /\ [][SafeFilenameCall \/ ParseArticleCall]_vars

\* C13: for every input string, the derived filename is non-empty, contains
\* none of the characters < > : " / \ | ? *, does not begin or end with a space
\* or a period, and its stem is not a Windows reserved device name (CON, PRN,
\* AUX, NUL, COM1-9, LPT1-9, in any case).
C13_FilenameSafe ==
    pc = "named" =>
        LET name == x_out.val
        IN  /\ name # <<>>
            /\ \A i \in 1..Len(name) :
                   name[i] \notin {"<", ">", ":", "\"", "/", "\\", "|", "?", "*"}
            /\ name[1] \notin {" ", "."} /\ name[Len(name)] \notin {" ", "."}
            /\ Upper(SplitExt(name)[1]) \notin reserved_names

\* C13 without the reserved device names: the filename is non-empty, free of
\* the nine characters and neither begins nor ends with a space or a period.
C13_FilenameSafeButReserved ==
    pc = "named" =>
        LET name == x_out.val
        IN  /\ name # <<>>
            /\ \A i \in 1..Len(name) :
                   name[i] \notin {"<", ">", ":", "\"", "/", "\\", "|", "?", "*"}
            /\ name[1] \notin {" ", "."} /\ name[Len(name)] \notin {" ", "."}

\* C15: for every input string, the derived filename contains no control
\* character (tab, newline, carriage return, vertical tab, form feed
\* included), no whitespace and no hyphen.
C15_NoControlNoBlankNoHyphen ==
    pc = "named" =>
        \A i \in 1..Len(x_out.val) : x_out.val[i] \notin Whitespace \cup {"-"}

\* C15 without the control characters string.printable holds: the filename
\* contains no space, no hyphen and no character outside string.printable.
C15_NoBlankNoHyphen ==
    pc = "named" =>
        \A i \in 1..Len(x_out.val) : x_out.val[i] \notin {" ", "-", "\\xa0"}

\* C16: for every content element, the text returned by the article text
\* extractor contains no non-breaking space, no newline and no run of two or
\* more consecutive spaces.
C16_SingleSpacedText ==
    (pc = "parsed" /\ x_out.val # None) =>
        LET text == x_out.val
        IN  /\ \A i \in 1..Len(text) : text[i] \notin {"\\xa0", "\n"}
            /\ \A i \in 1..(Len(text) - 1) : ~(text[i] = " " /\ text[i + 1] = " ")

\* C16 without the runs of spaces: the text holds no non-breaking space and no
\* newline, and it neither begins nor ends with a space.
C16_NoNbspNoNewline ==
    (pc = "parsed" /\ x_out.val # None) =>
        LET text == x_out.val
        IN  /\ \A i \in 1..Len(text) : text[i] \notin {"\\xa0", "\n"}
            /\ text # <<>> => text[1] # " " /\ text[Len(text)] # " "

----------------------------------------------------------------------------
(* Header-article extraction (Perplexity, Meta) and the arXiv listing extractor *)

\* the outcome of a step that may raise: error names the exception, "" for none
Ok(v) == [error |-> "", val |-> v]
Fail(e) == [error |-> e, val |-> <<>>]

\* soup.find(tag, class_=name) handed on as the soup of the generic extractor
SubSoup(soup, tag, name) ==
    IF Find(soup.elems, tag, name) = NoElement THEN NoSoup
    ELSE Soup(Find(soup.elems, tag, name).kids)

\* the outcome r of a call that raises the exception e when it raises
AsOutcome(r, e) == IF r.raised THEN Fail(e) ELSE Ok(r.val)

\* one call of the generic extractor; its result is what articles.extend adds.
\* It raises AttributeError on a soup that is None, and OverflowError from the
\* date arithmetic
GenericArticles(soup, rule, records, now) ==
    AsOutcome(ParseWebsiteForArticleLinks(soup, rule, records, now),
              IF ~soup.found THEN "AttributeError" ELSE "OverflowError")

\* lines 310-323: the header article of the Perplexity hub, appended to list
PerplexityHeader(soup, list, records) ==
    LET header_article == Find(soup.elems, "div", "framer-1qu7j16-container")
        header_link == Find(header_article.kids, "a", "framer-text")
    IN  IF header_article = NoElement \/ header_link = NoElement THEN Fail("AttributeError")
        ELSE IF header_link.href = None THEN Fail("TypeError")
        ELSE Ok(AppendIfNew(list,
                    Stub(GetTextStrip(header_link.text), None,
                         PERPLEXITY_URL \o DropFirst(header_link.href),
                         PERPLEXITY_URL, Str("perplexity_ai")),
                    records))

\* lines 356-374: the header article of the Meta AI blog, appended to list
MetaHeader(soup, list, records) ==
    LET header_article == Find(soup.elems, "div", "_amc_")
        header_link == Find(header_article.kids, "a", "_amcw _amd2")
        publish_date == Find(header_article.kids, "div", "_amun")
    IN  IF header_article = NoElement \/ header_link = NoElement \/ publish_date = NoElement
        THEN Fail("AttributeError")
        ELSE LET date_str == GetTextStrip(publish_date.text)
                 parsed == Strptime(date_str, "%B %d, %Y")
             IN  IF ~parsed.ok THEN Fail("ValueError")
                 ELSE Ok(AppendIfNew(list,
                             Stub(GetTextStrip(header_link.text), Strftime(parsed.date),
                                  header_link.href, META_AI_URL, Str("meta_ai")),
                             records))


(* An arXiv listing is a sequence of sections (<dl id="articles">), each
     [heading, entries]
   heading is the text of its <h3> (None: no <h3>), entries its <dt>/<dd>
   pairs in document order.  An entry is [abs, pdf, dd]: the href of the link
   titled "Abstract" and of the link titled "Download PDF" (None: no such
   link), and dd = [found, title, authors_section, authors], the <dd> that
   follows the <dt> (title: the text of its list-title div, None when it has
   none; authors_section: whether it has a list-authors div; authors: the
   texts of the links of that div). *)

Entry(abs, pdf, dd) == [abs |-> abs, pdf |-> pdf, dd |-> dd]

Dd(title, authors_section, authors) ==
    [found |-> TRUE, title |-> title, authors_section |-> authors_section, authors |-> authors]

NoDd == [found |-> FALSE, title |-> None, authors_section |-> FALSE, authors |-> <<>>]

Section(heading, entries) == [heading |-> heading, entries |-> entries]

RECURSIVE FindAllDt(_)
\* soup.find_all('dt'): the entries of every section of the page, in document order
FindAllDt(sections) ==
    IF sections = <<>> THEN <<>> ELSE Head(sections).entries \o FindAllDt(Tail(sections))

\* re.match(r"(\w{3}, \d{1,2} \w{3} \d{4})", s) with n digits for the day
HeadingMatches(s, n) ==
    /\ Len(s) >= 14 + n
    /\ \A i \in {1, 2, 3} \cup (7 + n)..(9 + n) :
           s[i] \in SetOf(UpperAlpha) \cup SetOf(LowerAlpha) \cup Digits \cup {"_"}
    /\ s[4] = "," /\ s[5] = " "
    /\ \A i \in 6..(5 + n) : s[i] \in Digits
    /\ s[6 + n] = " "
    /\ s[10 + n] = " "
    /\ \A i \in (11 + n)..(14 + n) : s[i] \in Digits

\* lines 567-572: the date of a section heading
SectionDate(heading) ==
    LET date == GetTextStrip(heading)
        n == IF HeadingMatches(date, 2) THEN 2 ELSE 1
    IN  IF ~HeadingMatches(date, 2) /\ ~HeadingMatches(date, 1) THEN Ok(None)
        ELSE \* datetime.strptime(date_match.group(1), "%a, %d %b %Y")
             LET d == DField(SubSeq(date, 6, 5 + n))
                 m == MonthOf(AbbrMonths, SubSeq(date, 7 + n, 9 + n))
                 y == YField(SubSeq(date, 11 + n, 14 + n))
                 parsed == MakeDate(y, m, d)
                 days == {Str("mon"), Str("tue"), Str("wed"), Str("thu"), Str("fri"), Str("sat"),
                          Str("sun")}
             IN  IF Lower(SubSeq(date, 1, 3)) \notin days \/ d = 0 \/ m = 0 \/ ~parsed.ok
                 THEN Fail("ValueError")
                 ELSE Ok(Strftime(parsed.date))

\* lines 583-596: an href of a listing entry made absolute
ArxivLink(href) ==
    IF href = None THEN None
    ELSE IF ~StartsWith(href, Str("https")) THEN ARXIV_URL \o href
    ELSE href

RECURSIVE EntriesLoop(_, _, _, _, _, _, _)
\* the inner for loop from the i-th entry on
EntriesLoop(dt_elements, i, list, date, source_url, records, cap) ==
    IF i > Min(Len(dt_elements), cap) THEN Ok(list)
    ELSE LET dt == dt_elements[i]
             dd == dt.dd
         IN  IF dd.found /\ (dd.title = None \/ ~dd.authors_section) THEN Fail("AttributeError")
             ELSE EntriesLoop(dt_elements, i + 1,
                      AppendIfNew(list,
                          [Stub(IF dd.found THEN SubSeq(GetTextStrip(dd.title), 7,
                                                        Len(GetTextStrip(dd.title)))
                                ELSE None,
                                date, ArxivLink(dt.abs), source_url, Str("arxiv"))
                              EXCEPT !.authors = IF dd.found THEN dd.authors ELSE <<>>,
                                     !.pdf_url = ArxivLink(dt.pdf)],
                          records),
                      date, source_url, records, cap)

RECURSIVE SectionsLoop(_, _, _, _, _, _, _)
\* the outer for loop from the k-th section on: every section runs over the
\* <dt> elements of the whole page
SectionsLoop(news_sections, k, list, dt_elements, source_url, records, cap) ==
    IF k > Len(news_sections) THEN Ok(list)
    ELSE IF news_sections[k].heading = None THEN Fail("AttributeError")
    ELSE LET date == SectionDate(news_sections[k].heading)
         IN  IF date.error # "" THEN date
             ELSE LET r == EntriesLoop(dt_elements, 1, list, date.val, source_url, records, cap)
                  IN  IF r.error # "" THEN r
                      ELSE SectionsLoop(news_sections, k + 1, r.val, dt_elements, source_url,
                                        records, cap)

\* NewsRetriever.__search_arxiv
SearchArxiv(soup, source_url, records) ==
    SectionsLoop(soup, 1, <<>>, FindAllDt(soup), source_url, records, max_articles_per_site)


----------------------------------------------------------------------------
(* One program run: fetch_articles_from_sources, then update (v1/src/main.py) *)

MaxRuns == 2

\* search.web.sites of the configuration: the listing pages, in scraping order
websites ==
    <<ANTHROPIC_URL \o Str("/news"), PERPLEXITY_URL \o Str("/hub"),
      META_AI_URL \o Str("/blog/"), ARXIV_URL \o Str("/list/cs.AI/recent")>>

\* the branch of lines 128-396 a listing url takes: the base urls are tried
\* in this order (the branches of sites that are not configured are left out;
\* a url none of the branches matches adds nothing)
SiteBranch(website_url) ==
    IF Contains(website_url, ANTHROPIC_URL) THEN "anthropic"
    ELSE IF Contains(website_url, PERPLEXITY_URL) THEN "perplexity"
    ELSE IF Contains(website_url, META_AI_URL) THEN "meta"
    ELSE IF Contains(website_url, ARXIV_URL) THEN "arxiv"
    ELSE ""

\* the keyword arguments and the soup of the branch's call of the generic extractor
SiteRule(branch) ==
    IF branch = "anthropic" THEN AnthropicRule
    ELSE IF branch = "perplexity" THEN PerplexityRule
    ELSE MetaRule

NewsContent(branch, soup) ==
    IF branch = "anthropic" THEN soup
    ELSE IF branch = "perplexity" THEN SubSoup(soup, "div", "framer-1pk4ise")
    ELSE SubSoup(soup, "div", "_amd6")

\* the header article of the branch, appended to list before the grid is read
HeaderArticle(branch, soup, list, records) ==
    IF branch = "perplexity" THEN PerplexityHeader(soup, list, records)
    ELSE IF branch = "meta" THEN MetaHeader(soup, list, records)
    ELSE Ok(list)

\* articles.extend(site_articles): h is the list with the header article, g
\* the stubs of the listing; either step may have raised
ExtendArticles(h, g) ==
    IF h.error # "" THEN h ELSE IF g.error # "" THEN g ELSE Ok(h.val \o g.val)

\* lines 127-398: the list articles after the page of website_url has been handled
SiteArticles(website_url, soup, list, records, now) ==
    IF SiteBranch(website_url) = "" THEN Ok(list)
    ELSE IF SiteBranch(website_url) = "arxiv"
    THEN ExtendArticles(Ok(list), SearchArxiv(soup, website_url, records))
    ELSE ExtendArticles(HeaderArticle(SiteBranch(website_url), soup, list, records),
                        GenericArticles(NewsContent(SiteBranch(website_url), soup),
                                        SiteRule(SiteBranch(website_url)), records, now))

\* page.goto(url) can only load a url that is a string with a scheme
Navigable(url) == url # None /\ HasScheme(url)

\* lines 686-739: the base urls __scrape_article knows, in the order it tries
\* them, each with the tag and the class of the content element
ArticleSites ==
    LET site(url, tag, cls) == [url |-> url, tag |-> tag, cls |-> cls]
    IN  << site(Str("https://www.ilpost.it"), "div", "contenuto"),
           site(Str("https://aibusiness.com"), "div", "ArticleBase-BodyContent"),
           site(Str("https://techcrunch.com"), "div", "wp-block-post-content"),
           site(Str("https://venturebeat.com"), "div", "article-content"),
           site(WIRED_URL, "div", "ArticlePageChunks-fLyCVG"),
           site(VERGE_URL, "div", "duet--layout--entry-body"),
           site(Str("https://huggingface.co"), "div", "blog-content"),
           site(Str("https://research.google"), "div", "glue-grid__col"),
           site(Str("https://openai.com"), "article", "flex flex-col"),
           site(ANTHROPIC_URL, "div", "Body_body__XEXq7"),
           site(DEEPMIND_URL, "div", "glue-page"),
           site(Str("https://blog.google"), "article", "uni-article-wrapper"),
           site(Str("https://developers.googleblog.com"), "div", "blog-detail-container"),
           site(MISTRAL_URL, "div", "blog-rich-text"),
           site(PERPLEXITY_URL, "div", "framer-tef8j0"),
           site(META_AI_URL, "div", "_7h8s"),
           site(Str("https://x.ai"), "section", "py-16"),
           site(ARXIV_URL, "blockquote", "abstract") >>

\* the article page of the snapshot behind a url: it holds the content
\* element of every site whose base url is part of the url, except the page
\* of /news/b, which holds none
ArticlePage(article_url) ==
    LET of_url == SelectSeq(ArticleSites, LAMBDA site : Contains(article_url, site.url))
    IN  Soup(<<Leaf("h1", <<>>, None, None, Str("Title"))>>
             \o (IF article_url = ANTHROPIC_URL \o Str("/news/b") THEN <<>>
                 ELSE [i \in 1..Len(of_url) |->
                          Leaf(of_url[i].tag, <<of_url[i].cls>>, None, None, Str(" body\n"))]))

\* __scrape_article once the page is loaded: the text __parse_article returns
\* for the first site whose base url is part of the url; article_text is never
\* assigned when no site matches
ScrapeArticle(article_url, soup) ==
    IF \A i \in 1..Len(ArticleSites) : ~Contains(article_url, ArticleSites[i].url)
    THEN Fail("UnboundLocalError")
    ELSE LET k == CHOOSE i \in 1..Len(ArticleSites) :
                      /\ Contains(article_url, ArticleSites[i].url)
                      /\ \A j \in 1..(i - 1) : ~Contains(article_url, ArticleSites[j].url)
         IN  Ok(ParseArticle(soup, ArticleSites[k].tag, ArticleSites[k].cls))


(* The site snapshots a run may find: one listing page per configured site *)

AnthropicPages ==
    LET card(href, title, date) ==
            Card(AnthropicRule, href, title, DatesOf(AnthropicRule, None, date))
        a == card(Str("/news/a"), Str("A"), Str("January 5, 2024"))
        b == card(Str("https://www.anthropic.com/news/b"), Str("B"), Str("soon"))
    IN  { Soup(<<a>>),
          Soup(<<a, b>>),
          Soup(<<a, b, card(Str("./news/d"), Str("D"), Str("01.04.2024"))>>),
          Soup(<<card(Str("/news/c"), Str("C"), Str("999999 giorni fa"))>>),
          Soup(<<card(Str("https://example.org/p"), Str("P"), Str("Jan 3, 2024"))>>) }

PerplexityPages ==
    LET page(header, grid) ==
            Soup(header \o <<El("div", <<"framer-1pk4ise">>, None, None, <<>>, grid)>>)
    IN  { page(<<El("div", <<"framer-1qu7j16-container">>, None, None, <<>>,
                    <<Leaf("a", <<"framer-text">>, Str("/hub/x"), None, Str("Head"))>>)>>,
               <<Card(PerplexityRule, Str("/hub/blog/y"), Str("Y"),
                      DatesOf(PerplexityRule, None, Str("Jan 5, 2024")))>>),
          page(<<>>, <<>>) }

MetaPages ==
    LET page(href, date, grid) ==
            Soup(<<El("div", <<"_amc_">>, None, None, <<>>,
                      <<Leaf("a", <<"_amcw _amd2">>, href, None, Str("Head")),
                        Leaf("div", <<"_amun">>, None, None, date)>>),
                   El("div", <<"_amd6">>, None, None, <<>>, grid)>>)
    IN  { page(Str("https://ai.meta.com/blog/x"), Str("January 5, 2024"),
               <<Card(MetaRule, Str("/blog/z"), Str("Z"),
                      DatesOf(MetaRule, None, Str("January 4, 2024")))>>),
          page(Str("/blog/x"), Str("January 5, 2024"), <<>>),
          page(Str("https://ai.meta.com/blog/x"), Str("5 May 2024"), <<>>) }

ArxivPages ==
    LET one == Entry(Str("/abs/1"), Str("/pdf/1"), Dd(Str("Title:One"), TRUE, <<Str("Ann")>>))
        two == Entry(Str("https://arxiv.org/abs/2"), None, NoDd)
    IN  { <<Section(Str("Fri, 5 Jan 2024 (2)"), <<one, two>>)>>,
          <<Section(Str("Fri, 5 Jan 2024 (1)"), <<one>>),
            Section(Str("Thu, 04 Jan 2024 (1)"), <<two>>)>>,
          <<Section(Str("New submissions"), <<Entry(None, Str("/pdf/3"), NoDd)>>)>>,
          <<Section(Str("Xyz, 5 Jan 2024 (1)"), <<one>>)>> }

Snapshots ==
    { <<a, p, m, x>> : a \in AnthropicPages, p \in PerplexityPages, m \in MetaPages,
                      x \in ArxivPages }

\* rows articles.csv may hold when the first run starts
PipelineRows ==
    { <<>>,
      <<Record(ANTHROPIC_URL \o Str("/news/a"), Str("a_anthropic_2024_01_05.txt"), Str("A"),
               Str("anthropic"), Str("2024-01-05"), TRUE, FALSE)>> }

Init ==
    /\ pc = "scrape"
    /\ error = ""
    /\ runs = 1
    /\ today = <<2024, 3, 2>>
    /\ csv_file \in PipelineRows
    /\ articles_records = ReadCsv(csv_file)
    /\ pages \in Snapshots
    /\ last_ok_pages = <<>>
    /\ site_i = 1 /\ articles = <<>> /\ art_i = 1 /\ unique_articles = <<>>
    /\ browsers = [open |-> 0, peak |-> 0]
    /\ NoHistory
    /\ NoExtract

\* p.chromium.launch(...)
Launch(b) ==
    [open |-> b.open + 1, peak |-> IF b.open + 1 > b.peak THEN b.open + 1 ELSE b.peak]

\* the mutant of Close: the browser stays open
CloseNothing(b) == b

\* browser.close(), and the end of the `with sync_playwright()` block an
\* exception leaves, which ends the browser it launched
Close(b) == [b EXCEPT !.open = @ - 1]

\* the mutant of Scraped: the text fetches start after the first listing page
ScrapedThenFetch(reachable, r, b) ==
    IF ~reachable
    THEN /\ pc' = "crashed" /\ error' = "TimeoutError" /\ browsers' = Close(b)
         /\ UNCHANGED <<site_i, articles>>
    ELSE IF r.error # ""
    THEN /\ pc' = "crashed" /\ error' = r.error /\ browsers' = Close(b)
         /\ UNCHANGED <<site_i, articles>>
    ELSE /\ articles' = r.val
         /\ site_i' = site_i + 1
         /\ pc' = "dedupe"
         /\ browsers' = Close(b)
         /\ UNCHANGED error

\* the end of one iteration of the loop of __scrape_websites: r is what the
\* page gave, b the browsers once the one of the listing pass is launched
\* (before the first iteration); it is closed after the last iteration
Scraped(reachable, r, b) ==
    IF ~reachable
    THEN /\ pc' = "crashed" /\ error' = "TimeoutError" /\ browsers' = Close(b)
         /\ UNCHANGED <<site_i, articles>>
    ELSE IF r.error # ""
    THEN /\ pc' = "crashed" /\ error' = r.error /\ browsers' = Close(b)
         /\ UNCHANGED <<site_i, articles>>
    ELSE /\ articles' = r.val
         /\ site_i' = site_i + 1
         /\ pc' = IF site_i = Len(websites) THEN "dedupe" ELSE "scrape"
         /\ browsers' = IF site_i = Len(websites) THEN Close(b) ELSE b
         /\ UNCHANGED error

\* one iteration of the loop of __scrape_websites: the page is loaded (goto
\* raises when the site does not answer in time) and its stubs are collected
ScrapeSite ==
    /\ pc = "scrape"
    /\ site_i <= Len(websites)
    /\ \E reachable \in BOOLEAN :
           Scraped(reachable,
                   SiteArticles(websites[site_i], pages[site_i], articles, articles_records,
                                today),
                   IF site_i = 1 THEN Launch(browsers) ELSE browsers)
    /\ UNCHANGED <<today, runs, storeVars, pages, art_i, unique_articles, last_ok_pages,
                   extractVars>>

\* the mutant of FetchArticle: every stub is appended and its text fetched
FetchArticleAlways ==
    /\ pc = "dedupe"
    /\ art_i <= Len(articles)
    /\ LET article == articles[art_i]
           r == ScrapeArticle(article.url, ArticlePage(article.url))
           seen_urls == {unique_articles[i].url : i \in 1..Len(unique_articles)}
       IN  IF FALSE
           THEN /\ art_i' = art_i + 1
                /\ UNCHANGED <<pc, error, unique_articles, browsers>>
           ELSE \E reachable \in BOOLEAN :
                    /\ browsers' = Close(Launch(browsers))
                    /\ IF ~Navigable(article.url) \/ ~reachable \/ r.error # ""
                       THEN /\ pc' = "crashed"
                            /\ error' = IF ~Navigable(article.url) THEN "Error"
                                        ELSE IF ~reachable THEN "TimeoutError" ELSE r.error
                            /\ unique_articles' = Append(unique_articles, article)
                            /\ UNCHANGED art_i
                       ELSE /\ unique_articles' =
                                   Append(unique_articles, [article EXCEPT !.text = r.val])
                            /\ art_i' = art_i + 1
                            /\ UNCHANGED <<pc, error>>
    /\ UNCHANGED <<today, runs, storeVars, pages, site_i, articles, last_ok_pages, extractVars>>

\* one iteration of the loop of fetch_articles_from_sources: a stub whose url
\* was seen is passed over; any other is appended and its text fetched
FetchArticle ==
    /\ pc = "dedupe"
    /\ art_i <= Len(articles)
    /\ LET article == articles[art_i]
           r == ScrapeArticle(article.url, ArticlePage(article.url))
           seen_urls == {unique_articles[i].url : i \in 1..Len(unique_articles)}
       IN  IF article.url \in seen_urls
           THEN /\ art_i' = art_i + 1
                /\ UNCHANGED <<pc, error, unique_articles, browsers>>
           ELSE \E reachable \in BOOLEAN :
                    /\ browsers' = Close(Launch(browsers))
                    /\ IF ~Navigable(article.url) \/ ~reachable \/ r.error # ""
                       THEN /\ pc' = "crashed"
                            /\ error' = IF ~Navigable(article.url) THEN "Error"
                                        ELSE IF ~reachable THEN "TimeoutError" ELSE r.error
                            /\ unique_articles' = Append(unique_articles, article)
                            /\ UNCHANGED art_i
                       ELSE /\ unique_articles' =
                                   Append(unique_articles, [article EXCEPT !.text = r.val])
                            /\ art_i' = art_i + 1
                            /\ UNCHANGED <<pc, error>>
    /\ UNCHANGED <<today, runs, storeVars, pages, site_i, articles, last_ok_pages, extractVars>>

\* main: update is called with the list fetch_articles_from_sources returned
Update ==
    /\ pc = "dedupe"
    /\ art_i > Len(articles)
    /\ \E unreachable \in SUBSET PdfUrls(unique_articles) :
           UpdateCall(unique_articles, unreachable)
    /\ UNCHANGED <<today, runs, runVars, extractVars>>

\* the program is started again, on the same snapshot or on another:
\* NewsRetriever and ArticlesDatabase are constructed anew
Restart ==
    /\ pc \in {"updated", "crashed"}
    /\ runs < MaxRuns
    /\ runs' = runs + 1
    /\ pc' = "scrape"
    /\ error' = ""
    /\ site_i' = 1 /\ articles' = <<>> /\ art_i' = 1 /\ unique_articles' = <<>>
    /\ browsers' = [open |-> 0, peak |-> 0]
    /\ prev_records' = <<>> /\ last_batch' = <<>> /\ new_articles' = 0
    /\ articles_records' = ReadCsv(csv_file)
    /\ pages' \in Snapshots
    /\ last_ok_pages' = IF pc = "updated" THEN pages ELSE <<>>
    /\ UNCHANGED <<today, csv_file, extractVars>>

Spec == Init /\ [][ScrapeSite \/ FetchArticle \/ Update \/ Restart]_vars


----------------------------------------------------------------------------
(* Claims about program runs (Spec) *)

\* C3: a full cycle (fetch_articles_from_sources, then update) that completes
\* on the snapshot on which the cycle before it completed appends no record.
C3_SecondCycleAppendsNothing ==
    (pc = "updated" /\ pages = last_ok_pages) =>
        new_articles = 0 /\ articles_records = ResetIsNew(prev_records)

\* C3 witness: two cycles completed on one snapshot, the first of which had
\* appended records, and the second appended none
C3_Witness ==
    /\ pc = "updated" /\ pages = last_ok_pages
    /\ Len(articles_records) >= 2
    /\ new_articles = 0

\* C4: while discovery runs, no stub the extractors have returned has a url
\* that is in the store.
C4_NoKnownStubReturned ==
    pc \in {"scrape", "dedupe"} =>
        \A i \in 1..Len(articles) : \A j \in 1..Len(articles_records) :
            articles_records[j].url # articles[i].url

\* C4 witness: the first listing held a link to a stored article next to a
\* link to a new one, and only the new one was returned
C4_Witness ==
    /\ pc = "scrape" /\ site_i = 2
    /\ Len(articles) > 0
    /\ \E k \in 1..Len(ArticlesInSite(pages[1].elems, AnthropicRule)) :
           LET u == ResolveUrl(LinkHref(ArticlesInSite(pages[1].elems, AnthropicRule)[k],
                                        AnthropicRule), ANTHROPIC_URL)
           IN  /\ \E j \in 1..Len(articles_records) : articles_records[j].url = u
               /\ \A i \in 1..Len(articles) : articles[i].url # u

\* C7: every stub discovery has collected, whichever extractor produced it,
\* has a url that is not null and begins with a scheme.
C7_StubUrlAbsolute ==
    \A i \in 1..Len(articles) : articles[i].url # None /\ HasScheme(articles[i].url)

\* C9: no run ends with an exception raised by date resolution, in the generic
\* extractor, in the header-article extraction or in the arXiv extractor.
C9_DateResolutionNeverRaises == error \notin {"ValueError", "OverflowError"}

\* C17: when the page of an article loads, the text-fetch stage sets the text
\* of the stub to a string or to null and goes on with the next stub: the run
\* never ends there, be it that the url matches none of the known site base
\* urls or that the page has no matching content element.
C17_TextFetchNeverRaises ==
    ~( /\ pc = "crashed" /\ site_i > Len(websites) /\ art_i <= Len(articles)
       /\ error \notin {"TimeoutError", "Error"} )

\* C17 for the pages without content element alone: such a stub gets the text
\* null and the stubs after it are fetched.
C17_NoContentGivesNull ==
    \A i \in 1..Len(unique_articles) :
        (unique_articles[i].url = ANTHROPIC_URL \o Str("/news/b") /\ i < art_i) =>
            unique_articles[i].text = None

\* C18: a structural mismatch never raises: when the listing region, the
\* header-article container, a section heading, a title or an author element
\* is absent from a page, no run ends with the AttributeError of a lookup on
\* the element that was not found.
C18_StructuralMismatchNeverRaises == error # "AttributeError"

\* C19: a navigation failure on one site does not end the run: the sites after
\* it are still scraped and the stubs collected before it are still returned.
C19_NavigationFailureIsolated ==
    ~(pc = "crashed" /\ error = "TimeoutError" /\ site_i <= Len(websites))

\* C12: the arXiv extractor returns at most max_articles_per_site stubs for one
\* listing page, whatever the number of dated sections on the page.
C12_ArxivAtMostCap ==
    pc = "dedupe" =>
        Len(SelectSeq(articles, LAMBDA a : a.source = Str("arxiv"))) <= max_articles_per_site

\* C23: in one run no article text fetch starts before the listing page of
\* every configured site has been scraped, and the sites and then the articles
\* are processed one at a time in list order: the site index and the article
\* index advance by one, the article index and the returned list only once the
\* site index is past the last site, and the stub added to the returned list
\* is the one at the article index.
C23_DiscoveryBeforeFetch ==
    [][ runs' = runs =>
          /\ site_i' # site_i =>
                /\ site_i' = site_i + 1 /\ site_i <= Len(websites)
                /\ art_i' = 1 /\ art_i = 1 /\ unique_articles = <<>>
          /\ (art_i' # art_i \/ unique_articles' # unique_articles) =>
                /\ site_i = Len(websites) + 1 /\ site_i' = site_i /\ articles' = articles
                /\ art_i' \in {art_i, art_i + 1} /\ art_i <= Len(articles)
                /\ unique_articles' # unique_articles =>
                      /\ Len(unique_articles') = Len(unique_articles) + 1
                      /\ unique_articles'[Len(unique_articles')].url = articles[art_i].url
                      /\ SubSeq(unique_articles', 1, Len(unique_articles)) = unique_articles
      ]_vars

\* C23's case: the listing pass is over and the second text fetch is next
C23_Witness ==
    /\ pc = "dedupe" /\ site_i = Len(websites) + 1
    /\ art_i = 2 /\ Len(articles) >= 2 /\ Len(unique_articles) = 1

\* C24: at most one browser is open at any time: the browser of the listing
\* pass is closed before the first article fetch, each article fetch opens and
\* closes its own, and none is open once the listing pass is over, between two
\* article fetches and when fetch_articles_from_sources has returned.
C24_AtMostOneBrowser ==
    /\ browsers.open <= 1 /\ browsers.peak <= 1
    /\ pc \in {"dedupe", "updated", "crashed"} => browsers.open = 0

\* C24's case: the listing pass and two article fetches have each had a browser
C24_Witness ==
    pc = "dedupe" /\ art_i > 2 /\ Len(unique_articles) >= 2 /\ browsers.peak = 1

\* C28: the list fetch_articles_from_sources returns has pairwise distinct
\* urls and holds, for each url of the stubs handled so far, its first
\* occurrence in discovery order, the stubs of a site before those of the sites
\* configured after it; a text fetch is made for a stub whose url was not seen
\* before, and a stub is passed over only when its url was seen.
C28_DistinctFirstOccurrences ==
    [][ runs' = runs /\ site_i' > Len(websites) =>
          LET urls(list) == {list[k].url : k \in 1..Len(list)}
              sources == <<Str("anthropic"), Str("perplexity_ai"), Str("meta_ai"), Str("arxiv")>>
              rank(source) == CHOOSE w \in 1..Len(websites) : sources[w] = source
              done == IF pc' = "crashed" /\ art_i' <= Len(articles') THEN art_i' ELSE art_i' - 1
              first == {i \in 1..done : \A j \in 1..(i - 1) : articles'[j].url # articles'[i].url}
              nth(k) == CHOOSE i \in first : Cardinality({j \in first : j <= i}) = k
          IN  /\ \A i, j \in 1..Len(unique_articles') :
                     i # j => unique_articles'[i].url # unique_articles'[j].url
              /\ Len(unique_articles') = Cardinality(first)
              /\ \A k \in 1..Len(unique_articles') :
                     [unique_articles'[k] EXCEPT !.text = None] = articles'[nth(k)]
              /\ \A i, j \in 1..Len(articles') :
                     i < j => rank(articles'[i].source) <= rank(articles'[j].source)
              /\ unique_articles' # unique_articles =>
                     articles[art_i].url \notin urls(unique_articles)
              /\ (art_i' # art_i /\ unique_articles' = unique_articles) =>
                     articles[art_i].url \in urls(unique_articles)
      ]_vars

\* C28's case: the listing pass found one url twice and every stub was handled
C28_Witness ==
    /\ pc = "dedupe" /\ art_i > Len(articles)
    /\ Len(unique_articles) >= 2 /\ Len(unique_articles) < Len(articles)

\* C30: after one complete run (fetch_articles_from_sources, then update with
\* the list it returned) get_new_articles returns exactly one record for each
\* returned article whose url is non-empty, in the same order, with the
\* article's url, title, source and date, and nothing else.
C30_NewArticlesAreTheFetched ==
    (pc = "updated" /\ site_i = Len(websites) + 1) =>
        LET new == GetNewArticles(articles_records)
            fetched == SelectSeq(unique_articles, LAMBDA a : a.url \notin {None, <<>>})
        IN  /\ Len(new) = Len(fetched)
            /\ \A k \in 1..Len(new) :
                   /\ new[k].url = fetched[k].url
                   /\ new[k].title = fetched[k].title
                   /\ new[k].source = fetched[k].source
                   /\ new[k].publish_date = fetched[k].publish_date

\* C30's case: a run that found rows in the store has completed with two
\* articles fetched
C30_Witness ==
    /\ pc = "updated" /\ site_i = Len(websites) + 1
    /\ Len(unique_articles) >= 2
    /\ Len(articles_records) > Len(GetNewArticles(articles_records))
    /\ Len(GetNewArticles(articles_records)) >= 2

\* C26: in the arXiv extractor each entry stub's publish_date is the parsed
\* date of the section heading the entry is listed under (null if the heading
\* does not match the pattern); an entry never gets the date of another section.
C26_EntryDateIsItsSection ==
    pc = "dedupe" =>
        \A i \in 1..Len(articles) :
            articles[i].source = Str("arxiv") =>
                \A k \in 1..Len(pages[4]) : \A e \in 1..Len(pages[4][k].entries) :
                    ArxivLink(pages[4][k].entries[e].abs) = articles[i].url =>
                        articles[i].publish_date = SectionDate(pages[4][k].heading).val

\* C26 on the pages with one dated section: there every stub has the date of
\* the only heading.
C26_SingleSectionDate ==
    (pc = "dedupe" /\ Len(pages[4]) = 1) =>
        \A i \in 1..Len(articles) :
            articles[i].source = Str("arxiv") =>
                articles[i].publish_date = SectionDate(pages[4][1].heading).val

\* C25: the date source depends only on whether the rule names a date
\* attribute: if it does and the date element carries the attribute,
\* publish_date is the attribute value cut at its first "T", with or without a
\* date class and a date-tag index; if it names none, publish_date is the date
\* the pattern chain gives for the element's text, with or without a date class.
C25_DateSourceByAttributeName ==
    TestEmitted =>
        IF x_rule.time_html_attr # ""
        THEN x_in.value # None => IsCutAtT(TestStub.publish_date, x_in.value)
        ELSE \/ RefTextDate(GetTextStrip(x_in.text), today).raised
             \/ Returned(TestStub.publish_date) = RefTextDate(GetTextStrip(x_in.text), today)

\* C25 on the combinations the call sites use (a date attribute without date
\* class and index, or no date attribute with a date class or an index): there
\* the attribute name alone tells the date source.
C25_DateSourceAtCallSites ==
    (x_rule \in {DeepmindRule, AnthropicRule, VergeRule, WiredRule, MistralRule}) =>
        C25_DateSourceByAttributeName

\* C27: the candidate containers are exactly the elements of the page with the
\* container tag (the wrapper tag if the rule gives one, else the article tag)
\* that satisfy the container class selector (the wrapper class if given, else
\* the article class): for a list, an element matches iff one of its classes
\* is in the list, and an element without class attribute never matches; with
\* no selector every element with the tag matches.  The stubs returned are
\* those of the first max_articles_per_site of these elements.
C27_ContainersByTagAndClass ==
    pc \in {"extracted", "raised"} =>
        LET tag == IF x_rule.article_wrapper_html_tag # "" THEN x_rule.article_wrapper_html_tag
                   ELSE x_rule.article_html_tag
            sel == IF x_rule.article_wrapper_class.kind # "none" THEN x_rule.article_wrapper_class
                   ELSE x_rule.article_class
            classes(el) == {el.cls[i] : i \in 1..Len(el.cls)}
            names == {sel.names[i] : i \in 1..Len(sel.names)}
            containers == SelectSeq(Descendants(x_soup.elems),
                              LAMBDA el : /\ el.tag = tag
                                          /\ sel.kind = "list" =>
                                                 el.cls # <<>> /\ classes(el) \cap names # {}
                                          /\ sel.kind = "str" => names \subseteq classes(el))
            n == IF Len(containers) < max_articles_per_site THEN Len(containers)
                 ELSE max_articles_per_site
            url(c) == ResolveUrl(LinkHref(c, x_rule), x_rule.source_url)
            kept == SelectSeq(SubSeq(containers, 1, n),
                        LAMBDA c : /\ LinkHref(c, x_rule) # None
                                   /\ \A j \in 1..Len(articles_records) :
                                          articles_records[j].url # url(c))
        IN  /\ ArticlesInSite(x_soup.elems, x_rule) = containers
            /\ pc = "extracted" =>
                   [i \in 1..Len(x_out.val) |-> x_out.val[i].url] = [i \in 1..Len(kept) |-> url(kept[i])]

\* C27's case: under a list selector the element with two classes, one of
\* them in the list, gave the second stub, and the elements before it that
\* have no class, another class or another tag gave none
C27_Witness ==
    /\ pc = "extracted" /\ x_in.href # None
    /\ x_rule.article_wrapper_class.kind = "list"
    /\ Len(x_out.val) = 2
    /\ x_out.val[2].url = x_rule.source_url \o Str("/other")

\* C29: within one call of the generic extractor the date elements of every
\* container are located with the rule's own date class: the class set while
\* time_tag_index > 0 is undone before the next container, so each stub has
\* the date its container gives under the rule's own date class.
C29_DateClassFilterRestored ==
    pc = "extracted" =>
        LET cands == ArticlesInSite(x_soup.elems, x_rule)
            n == IF Len(cands) < max_articles_per_site THEN Len(cands)
                 ELSE max_articles_per_site
            kept == SelectSeq(SubSeq(cands, 1, n),
                        LAMBDA c : /\ LinkHref(c, x_rule) # None
                                   /\ \A j \in 1..Len(articles_records) :
                                          articles_records[j].url #
                                              ResolveUrl(LinkHref(c, x_rule), x_rule.source_url))
        IN  /\ Len(x_out.val) = Len(kept)
            /\ \A k \in 1..Len(kept) :
                   x_out.val[k].publish_date =
                       PublishDate(kept[k], x_rule, x_rule.time_class, today).val

\* C29's case: a rule with time_tag_index 1 has read the date of one container
\* and then the date of the next
C29_Witness ==
    /\ pc = "extracted" /\ x_rule.time_tag_index > 0
    /\ Len(x_out.val) = 2
    /\ x_out.val[1].publish_date # None
    /\ x_out.val[2].publish_date = Str("2024-01-04")

====
